---- MODULE Spec2Model ----
(***************************************************************************)
(* Symmetric matrix-based probabilistic linear solver                      *)
(* (src/src/probnum/linalg/linearsolvers/matrixbased.py).                  *)
(*                                                                         *)
(* The solver object is the state; Init is the object after __init__, and  *)
(* solve() is a sequence of steps, one per block of the loop body.         *)
(* Arithmetic is exact over the rationals, extended by the three           *)
(* non-finite values a numpy division by zero produces (+inf, -inf, nan).  *)
(***************************************************************************)
EXTENDS Integers, Sequences, FiniteSets, TLC

(***************************************************************************)
(* Bounds of the model.                                                    *)
(***************************************************************************)
MaxIter == 3      \* maxiter is drawn from 0..MaxIter
MaxSolves == 2    \* solve() invocations on one solver object

(***************************************************************************)
(* Natural numbers of any size, as little-endian sequences of base-10000   *)
(* digits without leading zero digits (<<>> is 0).  The exact rationals    *)
(* of one solve outgrow the 32-bit integers of the model checker.          *)
(***************************************************************************)
Abs(i) == IF i < 0 THEN -i ELSE i

Sgn(i) == IF i < 0 THEN -1 ELSE IF i > 0 THEN 1 ELSE 0

RECURSIVE GCD(_, _)
\* Euclid's algorithm, three steps at a time
GCD(a, b) ==
    CASE b = 0 -> a
      [] b # 0 /\ a % b = 0 -> b
      [] b # 0 /\ a % b # 0 /\ b % (a % b) = 0 -> a % b
      [] OTHER -> GCD(b % (a % b), (a % b) % (b % (a % b)))

RECURSIVE NStrip(_)
NStrip(a) ==
    IF a = <<>> THEN a
    ELSE IF a[Len(a)] = 0 THEN NStrip(SubSeq(a, 1, Len(a) - 1))
    ELSE a

RECURSIVE NFromInt(_)
NFromInt(n) == IF n = 0 THEN <<>> ELSE <<n % 10000>> \o NFromInt(n \div 10000)

\* a is below 21 * 10^8, hence an integer of the model checker
NFits(a) == Len(a) <= 2 \/ (Len(a) = 3 /\ a[3] < 21)

RECURSIVE NToInt(_)
NToInt(a) == IF a = <<>> THEN 0 ELSE a[1] + 10000 * NToInt(Tail(a))

Digit(a, i) == IF i <= Len(a) THEN a[i] ELSE 0

(***************************************************************************)
(* Long division, gcd, the scalar operations and Apply are reached through *)
(* Arith, one recursive operator that dispatches on the name of the        *)
(* operation: these definitions use each other many times over, and the    *)
(* model checker would otherwise expand that nesting in full.  XImpl is    *)
(* the definition of the dispatched operator X.                            *)
(***************************************************************************)
RECURSIVE Arith(_, _, _)

NDivMod(a, b) == Arith("NDivMod", a, b)

NGcd(a, b) == Arith("NGcd", a, b)

RAdd(a, b) == Arith("RAdd", a, b)

RMul(a, b) == Arith("RMul", a, b)

RDiv(a, b) == Arith("RDiv", a, b)

Apply(L, z) == Arith("Apply", L, z)

RECURSIVE NCmpFrom(_, _, _)
NCmpFrom(a, b, i) ==
    IF i = 0 THEN 0
    ELSE IF a[i] < b[i] THEN -1
    ELSE IF a[i] > b[i] THEN 1
    ELSE NCmpFrom(a, b, i - 1)

\* -1, 0, 1 as a < b, a = b, a > b
NCmp(a, b) ==
    IF Len(a) < Len(b) THEN -1
    ELSE IF Len(a) > Len(b) THEN 1
    ELSE NCmpFrom(a, b, Len(a))

RECURSIVE NAddFrom(_, _, _, _)
NAddFrom(a, b, i, carry) ==
    IF i > Len(a) /\ i > Len(b)
    THEN (IF carry = 0 THEN <<>> ELSE <<carry>>)
    ELSE LET t == Digit(a, i) + Digit(b, i) + carry
         IN  <<t % 10000>> \o NAddFrom(a, b, i + 1, t \div 10000)

NAdd(a, b) == NAddFrom(a, b, 1, 0)

RECURSIVE NSubFrom(_, _, _, _)
NSubFrom(a, b, i, borrow) ==
    IF i > Len(a) THEN <<>>
    ELSE LET t == a[i] - Digit(b, i) - borrow
         IN  IF t < 0 THEN <<t + 10000>> \o NSubFrom(a, b, i + 1, 1)
             ELSE <<t>> \o NSubFrom(a, b, i + 1, 0)

\* a - b for a >= b
NSub(a, b) == NStrip(NSubFrom(a, b, 1, 0))

RECURSIVE NMulDigitFrom(_, _, _, _)
NMulDigitFrom(a, d, i, carry) ==
    IF i > Len(a) THEN (IF carry = 0 THEN <<>> ELSE <<carry>>)
    ELSE LET t == a[i] * d + carry
         IN  <<t % 10000>> \o NMulDigitFrom(a, d, i + 1, t \div 10000)

\* a * d for a digit d
NMulDigit(a, d) == IF d = 0 THEN <<>> ELSE NMulDigitFrom(a, d, 1, 0)

RECURSIVE NMulFrom(_, _, _)
NMulFrom(a, b, j) ==
    IF j > Len(b) THEN <<>>
    ELSE LET rest == NMulFrom(a, b, j + 1)
         IN  NAdd(NMulDigit(a, b[j]), IF rest = <<>> THEN rest ELSE <<0>> \o rest)

NMul(a, b) ==
    IF a = <<>> \/ b = <<>> THEN <<>>
    ELSE IF Len(a) = 1 /\ Len(b) = 1 THEN NFromInt(a[1] * b[1])
    ELSE NMulFrom(a, b, 1)

\* the largest d in lo, lo + step, ..., lo + 21 * step with b * d <= r, for
\* b * lo <= r
QuotientAmong(r, b, lo, step) ==
    CHOOSE d \in {lo + k * step : k \in 0..21} :
        /\ NCmp(NMulDigit(b, d), r) <= 0
        /\ d = lo + 21 * step \/ NCmp(NMulDigit(b, d + step), r) > 0

\* the largest digit d with b * d <= r, for r < 10000 * b: 22^3 > 10000
QuotientDigit(r, b) ==
    QuotientAmong(r, b, QuotientAmong(r, b, QuotientAmong(r, b, 0, 484), 22), 1)

RECURSIVE NDivModFrom(_, _, _, _, _)
\* long division of a by b # 0, from digit i of a downwards: q and r are
\* the quotient and the remainder of the digits above i
NDivModFrom(a, b, i, q, r) ==
    IF i = 0 THEN [q |-> q, r |-> r]
    ELSE LET r1 == NStrip(<<a[i]>> \o r)
             d == IF NCmp(r1, b) < 0 THEN 0 ELSE QuotientDigit(r1, b)
         IN  IF d = 0
             THEN NDivModFrom(a, b, i - 1, IF q = <<>> THEN q ELSE <<0>> \o q, r1)
             ELSE NDivModFrom(a, b, i - 1, <<d>> \o q,
                              NSub(r1, NMulDigit(b, d)))

NDivModImpl(a, b) ==
    IF NFits(b) /\ NFits(a)
    THEN [q |-> NFromInt(NToInt(a) \div NToInt(b)),
          r |-> NFromInt(NToInt(a) % NToInt(b))]
    ELSE NDivModFrom(a, b, Len(a), <<>>, <<>>)

NGcdImpl(a, b) ==
    IF NFits(a) /\ NFits(b) THEN NFromInt(GCD(NToInt(a), NToInt(b)))
    ELSE IF b = <<>> THEN a
    ELSE LET r == NDivMod(a, b).r
         IN  IF r = <<>> THEN b ELSE NGcd(b, r)

(***************************************************************************)
(* Scalars.  <<p, q>> with q > 0 and gcd(|p|, q) = 1 is the rational p/q;  *)
(* a rational whose numerator or denominator is too large for that is      *)
(* <<s, n, d>>, the sign and the two natural numbers.  <<1, 0>>, <<-1, 0>> *)
(* and <<0, 0>> are +inf, -inf and nan, the results of a numpy division by *)
(* zero.  The sign of a zero is not tracked: x/0 has the sign of x.        *)
(***************************************************************************)
Frac(p, q) ==
    LET g == GCD(Abs(p), Abs(q))
    IN  <<(Sgn(q) * p) \div g, Abs(q) \div g>>

R(i) == <<i, 1>>

Zero == <<0, 1>>

Half == <<1, 2>>

NaN == <<0, 0>>

IsFinite(a) == Len(a) = 3 \/ a[2] # 0

\* -1, 0, 1; the sign of nan is 0
Sign(a) == IF Len(a) = 3 THEN a[1] ELSE Sgn(a[1])

\* native products and sums of two such rationals cannot overflow
IsSmall(a) ==
    /\ Len(a) = 2
    /\ a[2] # 0
    /\ Abs(a[1]) <= 30000
    /\ a[2] <= 30000

Wide(a) ==
    IF Len(a) = 3 THEN [s |-> a[1], n |-> a[2], d |-> a[3]]
    ELSE [s |-> Sgn(a[1]), n |-> NFromInt(Abs(a[1])), d |-> NFromInt(a[2])]

\* the scalar s * n / d for n and d without a common divisor
Scalar(s, n, d) ==
    IF NFits(n) /\ NFits(d) THEN <<s * NToInt(n), NToInt(d)>> ELSE <<s, n, d>>

\* the scalar s * n / d in lowest terms
Reduce(s, n, d) ==
    LET g == NGcd(n, d)
    IN  IF n = <<>> THEN Zero
        ELSE IF g = <<1>> THEN Scalar(s, n, d)
        ELSE Scalar(s, NDivMod(n, g).q, NDivMod(d, g).q)

RNeg(a) == IF Len(a) = 3 THEN <<-a[1], a[2], a[3]>> ELSE <<-a[1], a[2]>>

\* a + b for a and b with the signs a.s and b.s # 0, over the denominator
\* ad * b.d = a.d * bd
WideAddOver(a, b, ad, bd) ==
    LET p == NMul(a.n, bd)
        q == NMul(b.n, ad)
        d == NMul(ad, b.d)
    IN  IF a.s = b.s THEN Reduce(a.s, NAdd(p, q), d)
        ELSE IF NCmp(p, q) >= 0 THEN Reduce(a.s, NSub(p, q), d)
        ELSE Reduce(b.s, NSub(q, p), d)

WideAdd(a, b) ==
    LET g == NGcd(a.d, b.d)
    IN  IF a.s = 0 THEN Reduce(b.s, b.n, b.d)
        ELSE IF b.s = 0 THEN Reduce(a.s, a.n, a.d)
        ELSE IF g = <<1>> THEN WideAddOver(a, b, a.d, b.d)
        ELSE WideAddOver(a, b, NDivMod(a.d, g).q, NDivMod(b.d, g).q)

RAddImpl(a, b) ==
    IF IsSmall(a) /\ IsSmall(b)
    THEN LET g == GCD(a[2], b[2])
         IN  Frac(a[1] * (b[2] \div g) + b[1] * (a[2] \div g), (a[2] \div g) * b[2])
    ELSE IF IsFinite(a) /\ IsFinite(b) THEN WideAdd(Wide(a), Wide(b))
    ELSE IF a = NaN \/ b = NaN THEN NaN
    ELSE IF ~IsFinite(a) /\ ~IsFinite(b) THEN (IF a = b THEN a ELSE NaN)
    ELSE IF ~IsFinite(a) THEN a
    ELSE b

RSub(a, b) == RAdd(a, RNeg(b))

\* a and b in lowest terms: cancelling crosswise leaves the product so
WideMul(a, b) ==
    LET g1 == NGcd(a.n, b.d)
        g2 == NGcd(b.n, a.d)
    IN  IF a.s = 0 \/ b.s = 0 THEN Zero
        ELSE IF <<g1, g2>> = <<<<1>>, <<1>>>>
        THEN Scalar(a.s * b.s, NMul(a.n, b.n), NMul(a.d, b.d))
        ELSE Scalar(a.s * b.s,
                    NMul(NDivMod(a.n, g1).q, NDivMod(b.n, g2).q),
                    NMul(NDivMod(a.d, g2).q, NDivMod(b.d, g1).q))

RMulImpl(a, b) ==
    IF IsSmall(a) /\ IsSmall(b) THEN Frac(a[1] * b[1], a[2] * b[2])
    ELSE IF IsFinite(a) /\ IsFinite(b) THEN WideMul(Wide(a), Wide(b))
    ELSE IF a = NaN \/ b = NaN THEN NaN
    ELSE IF Sign(a) = 0 \/ Sign(b) = 0 THEN NaN
    ELSE <<Sign(a) * Sign(b), 0>>

RDivImpl(a, b) ==
    IF a = NaN \/ b = NaN THEN NaN
    ELSE IF ~IsFinite(a)
         THEN (IF ~IsFinite(b) THEN NaN
               ELSE <<a[1] * (IF Sign(b) < 0 THEN -1 ELSE 1), 0>>)
    ELSE IF ~IsFinite(b) THEN Zero
    ELSE IF Sign(b) = 0
         THEN (IF Sign(a) = 0 THEN NaN ELSE <<Sign(a), 0>>)
    ELSE LET w == Wide(b)
         IN  WideMul(Wide(a), [s |-> w.s, n |-> w.d, d |-> w.n])

(***************************************************************************)
(* Vectors (sequences of scalars) and dense matrices (sequences of rows).  *)
(***************************************************************************)
RECURSIVE DotRange(_, _, _, _)
\* sum of a[k] * b[k] for k in lo..hi, added pairwise (the sum is exact, so
\* the order of the additions does not change it)
DotRange(a, b, lo, hi) ==
    CASE lo > hi -> Zero
      [] lo = hi -> RMul(a[lo], b[lo])
      [] lo < hi -> RAdd(DotRange(a, b, lo, (lo + hi) \div 2),
                         DotRange(a, b, (lo + hi) \div 2 + 1, hi))

Dot(a, b) == DotRange(a, b, 1, Len(a))

VAdd(a, b) == [i \in 1..Len(a) |-> RAdd(a[i], b[i])]

VSub(a, b) == [i \in 1..Len(a) |-> RSub(a[i], b[i])]

VNeg(a) == [i \in 1..Len(a) |-> RNeg(a[i])]

VScale(c, a) == [i \in 1..Len(a) |-> RMul(c, a[i])]

VDivS(a, c) == [i \in 1..Len(a) |-> RDiv(a[i], c)]

MatVec(M, v) == [i \in 1..Len(M) |-> Dot(M[i], v)]

IntVec(v) == [i \in 1..Len(v) |-> R(v[i])]

IntMat(M) == [i \in 1..Len(M) |-> IntVec(M[i])]

Identity(n) == [i \in 1..n |-> [j \in 1..n |-> IF i = j THEN R(1) ELSE Zero]]

UnitVec(n, k) == [i \in 1..n |-> IF i = k THEN R(1) ELSE Zero]

\* squared Euclidean norm; np.linalg.norm is its square root
NormSq(v) == Dot(v, v)

(***************************************************************************)
(* Tolerances are decimal numbers m * 10^(-e), so that 1e-10 is exact.     *)
(***************************************************************************)
Tol(m, e) == [m |-> m, e |-> e]

RECURSIVE NTimes100(_, _)
\* a * 100^k
NTimes100(a, k) ==
    IF a = <<>> \/ k = 0 THEN a ELSE NTimes100(NMulDigit(a, 100), k - 1)

\* sqrt(nsq) <= tol * sqrt(scalesq), compared through the squares:
\* nsq <= tol^2 * scalesq, for finite scalesq >= 0
NormLeq(nsq, tol, scalesq) ==
    IF ~IsFinite(nsq) \/ tol.m < 0 THEN FALSE
    ELSE LET v == Wide(nsq)
             w == Wide(scalesq)
             lhs == NTimes100(NMul(v.n, w.d), tol.e)
             rhs == NMul(NFromInt(tol.m * tol.m), NMul(w.n, v.d))
         IN  NCmp(lhs, rhs) <= 0

(***************************************************************************)
(* Linear operators.  The solver never forms the updated matrices: an      *)
(* operator is a dense base matrix plus the chain of update operators      *)
(* added to (sign 1) or subtracted from (sign -1) it, applied lazily.      *)
(***************************************************************************)
aslinop(M) == [base |-> M, terms |-> <<>>]

\* mv(x) = u @ (v.T @ x) + v @ (u.T @ x)
mean_update(u, v) == [kind |-> "mean", u |-> u, v |-> v]

\* mv(x) = u @ (Ws.T @ x)
covariance_update(u, Ws) == [kind |-> "cov", u |-> u, v |-> Ws]

UpdateMatVec(t, z) ==
    IF t.kind = "mean"
    THEN VAdd(VScale(Dot(t.v, z), t.u), VScale(Dot(t.u, z), t.v))
    ELSE VScale(Dot(t.v, z), t.u)

RECURSIVE TermsRange(_, _, _, _)
\* the signed sum of the update operators lo..hi of L applied to z, added
\* pairwise
TermsRange(L, z, lo, hi) ==
    IF lo = hi
    THEN LET tv == UpdateMatVec(L.terms[lo].op, z)
         IN  IF L.terms[lo].sign = 1 THEN tv ELSE VNeg(tv)
    ELSE VAdd(TermsRange(L, z, lo, (lo + hi) \div 2),
              TermsRange(L, z, (lo + hi) \div 2 + 1, hi))

\* L @ z
ApplyImpl(L, z) ==
    IF L.terms = <<>> THEN MatVec(L.base, z)
    ELSE VAdd(MatVec(L.base, z), TermsRange(L, z, 1, Len(L.terms)))

Arith(op, a, b) ==
    CASE op = "NDivMod" -> NDivModImpl(a, b)
      [] op = "NGcd" -> NGcdImpl(a, b)
      [] op = "RAdd" -> RAddImpl(a, b)
      [] op = "RMul" -> RMulImpl(a, b)
      [] op = "RDiv" -> RDivImpl(a, b)
      [] op = "Apply" -> ApplyImpl(a, b)

LinopAdd(L, t) == [L EXCEPT !.terms = Append(@, [sign |-> 1, op |-> t])]

LinopSub(L, t) == [L EXCEPT !.terms = Append(@, [sign |-> -1, op |-> t])]

Dim(L) == Len(L.base)

(***************************************************************************)
(* Inputs: the linear systems with their priors, and the options of        *)
(* solve().                                                                *)
(***************************************************************************)
System(A, b, A_mean0, A_covfactor0, Ainv_mean0, Ainv_covfactor0) ==
    [A |-> IntMat(A), b |-> IntVec(b),
     A_mean |-> IntMat(A_mean0), A_covfactor |-> IntMat(A_covfactor0),
     Ainv_mean |-> IntMat(Ainv_mean0), Ainv_covfactor |-> IntMat(Ainv_covfactor0)]

I2 == <<<<1, 0>>, <<0, 1>>>>

I3 == <<<<1, 0, 0>>, <<0, 1, 0>>, <<0, 0, 1>>>>

\* scenario A of the specification
ScenarioA == System(<<<<4, 1>>, <<1, 3>>>>, <<1, 2>>, I2, I2, I2, I2)

\* scenario C of the specification: A = Identity, identity priors, several b
ScenarioC ==
    {System(I2, b, I2, I2, I2, I2) : b \in {<<1, 2>>, <<0, 3>>, <<-2, 1>>}}
    \cup {System(I3, <<1, 2, 3>>, I3, I3, I3, I3)}

\* a symmetric positive-definite system with positive-definite priors whose
\* second search direction is zero while the residual is not
Breakdown ==
    System(<<<<1, -1>>, <<-1, 2>>>>, <<1, 1>>, I2, I2, I2, <<<<1, 1>>, <<1, 2>>>>)

\* further symmetric positive-definite systems with positive-definite priors
OtherSystems ==
    { System(<<<<1, -1>>, <<-1, 2>>>>, <<1, 1>>, <<<<2, 0>>, <<0, 1>>>>, I2, I2,
             <<<<2, 1>>, <<1, 1>>>>),
      System(<<<<2, 1, 0>>, <<1, 2, 1>>, <<0, 1, 2>>>>, <<1, 0, 0>>, I3, I3, I3, I3),
      System(<<<<2>>>>, <<3>>, <<<<1>>>>, <<<<1>>>>, <<<<2>>>>, <<<<1>>>>) }

\* a symmetric positive-definite system of size 7 on which solve() performs
\* six iterations: A = L L' for L = I - (subdiagonal of ones), b = e_1,
\* identity priors but Ainv_covfactor = inverse of A
Tridiagonal7 ==
    System([i \in 1..7 |-> [j \in 1..7 |->
                IF i = j THEN (IF i = 1 THEN 1 ELSE 2)
                ELSE IF i - j \in {-1, 1} THEN -1 ELSE 0]],
           [i \in 1..7 |-> IF i = 1 THEN 1 ELSE 0],
           [i \in 1..7 |-> [j \in 1..7 |-> IF i = j THEN 1 ELSE 0]],
           [i \in 1..7 |-> [j \in 1..7 |-> IF i = j THEN 1 ELSE 0]],
           [i \in 1..7 |-> [j \in 1..7 |-> IF i = j THEN 1 ELSE 0]],
           [i \in 1..7 |-> [j \in 1..7 |-> IF i > j THEN 8 - i ELSE 8 - j]])

\* systems whose A does not have the dimension of b: A of size 3 x 3 or
\* 1 x 2 with b of size 2 and priors of size 2, and A and priors of size 2
\* with b of size 3
Mismatched ==
    { System(<<<<2, 1, 0>>, <<1, 2, 1>>, <<0, 1, 2>>>>, <<1, 2>>, I2, I2, I2, I2),
      System(<<<<1, 1>>>>, <<1, 2>>, I2, I2, I2, I2),
      System(<<<<4, 1>>, <<1, 3>>>>, <<1, 2, 3>>, I2, I2, I2, I2) }

Systems ==
    {ScenarioA, Breakdown, Tridiagonal7} \cup ScenarioC \cup OtherSystems
        \cup Mismatched

\* if self.iter_ > 5: calibration needs more than 5 iterations
CalibrationThreshold == 5

\* 0..MaxIter, and the least maxiter that lets solve() pass the threshold
MaxiterValues == (0..MaxIter) \cup {CalibrationThreshold + 1}

\* 0 and 1e-10
AtolValues == {Tol(0, 0), Tol(1, 10)}

\* 0 and 1
RtolValues == {Tol(0, 0), Tol(1, 0)}

None == <<>>

(***************************************************************************)
(* State.                                                                  *)
(***************************************************************************)
VARIABLES
    A, b,                   \* self.A, self.b
    prior,                  \* the constructor's arguments (history)
    A_mean, A_covfactor,    \* self.A_mean, self.A_covfactor
    Ainv_mean, Ainv_covfactor,
    x,                      \* self.x
    S, Y, sy,               \* self.S, self.Y, self.sy
    iter_,                  \* self.iter_ (set by solve(); 0 stands for unset)
    pc,                     \* position in solve()
    maxiter, atol, rtol, calibrate,   \* arguments of solve()
    callback,               \* whether a callback was supplied
    resid, has_converged, conv_crit,            \* locals of solve()
    search_dir, obs, step_size,
    warned,                 \* warnings emitted by this invocation
    callbacks,              \* what the callback received, per invocation
    A_applications,         \* products self.A @ v of this invocation
    calibrations,           \* calls of _calibrate_uncertainty, this invocation
    ncalls,                 \* solve() invocations started
    result                  \* what the last solve() returned

solver == <<A_mean, A_covfactor, Ainv_mean, Ainv_covfactor, x, S, Y, sy>>

options == <<maxiter, atol, rtol, calibrate, callback>>

locals == <<resid, has_converged, conv_crit, search_dir, obs, step_size>>

vars == <<A, b, prior, solver, iter_, pc, options, locals, warned, callbacks,
          A_applications, calibrations, ncalls, result>>

\* _check_convergence testing the residual before the iteration count
check_convergence_ResidFirst(iter, maxiter_, resid_, atol_, rtol_, b_) ==
    IF NormLeq(NormSq(resid_), atol_, R(1))
    THEN [has_converged |-> TRUE, conv_crit |-> "resid_atol", warn |-> FALSE]
    ELSE IF NormLeq(NormSq(resid_), rtol_, NormSq(b_))
    THEN [has_converged |-> TRUE, conv_crit |-> "resid_rtol", warn |-> FALSE]
    ELSE IF iter >= maxiter_
    THEN [has_converged |-> TRUE, conv_crit |-> "maxiter", warn |-> TRUE]
    ELSE [has_converged |-> FALSE, conv_crit |-> "", warn |-> FALSE]

\* _check_convergence with iter > maxiter for iter >= maxiter
check_convergence_OffByOne(iter, maxiter_, resid_, atol_, rtol_, b_) ==
    IF iter > maxiter_
    THEN [has_converged |-> TRUE, conv_crit |-> "maxiter", warn |-> TRUE]
    ELSE IF NormLeq(NormSq(resid_), atol_, R(1))
    THEN [has_converged |-> TRUE, conv_crit |-> "resid_atol", warn |-> FALSE]
    ELSE IF NormLeq(NormSq(resid_), rtol_, NormSq(b_))
    THEN [has_converged |-> TRUE, conv_crit |-> "resid_rtol", warn |-> FALSE]
    ELSE [has_converged |-> FALSE, conv_crit |-> "", warn |-> FALSE]

\* _check_convergence with the strict comparison of its docstring for atol
check_convergence_StrictAtol(iter, maxiter_, resid_, atol_, rtol_, b_) ==
    IF iter >= maxiter_
    THEN [has_converged |-> TRUE, conv_crit |-> "maxiter", warn |-> TRUE]
    ELSE IF NormLeq(NormSq(resid_), atol_, R(1)) /\ NormSq(resid_) # Zero
    THEN [has_converged |-> TRUE, conv_crit |-> "resid_atol", warn |-> FALSE]
    ELSE IF NormLeq(NormSq(resid_), rtol_, NormSq(b_))
    THEN [has_converged |-> TRUE, conv_crit |-> "resid_rtol", warn |-> FALSE]
    ELSE [has_converged |-> FALSE, conv_crit |-> "", warn |-> FALSE]

(***************************************************************************)
(* ProbabilisticLinearSolver._check_convergence                            *)
(***************************************************************************)
check_convergence(iter, maxiter_, resid_, atol_, rtol_, b_) ==
    IF iter >= maxiter_
    THEN [has_converged |-> TRUE, conv_crit |-> "maxiter", warn |-> TRUE]
    ELSE IF NormLeq(NormSq(resid_), atol_, R(1))
    THEN [has_converged |-> TRUE, conv_crit |-> "resid_atol", warn |-> FALSE]
    ELSE IF NormLeq(NormSq(resid_), rtol_, NormSq(b_))
    THEN [has_converged |-> TRUE, conv_crit |-> "resid_rtol", warn |-> FALSE]
    ELSE [has_converged |-> FALSE, conv_crit |-> "", warn |-> FALSE]

\* the initial estimate without the prior mean of the inverse
initial_estimate_NoPrior(Ainv_mean0, b_) == b_

\* self.x = Ainv_mean @ b
initial_estimate(Ainv_mean0, b_) == MatVec(Ainv_mean0, b_)

\* M @ v raises a ValueError: the columns of M are not the entries of v
matmul_raises(M, v) == Len(M[1]) # Len(v)

\* v - w raises a ValueError: numpy broadcasts two vectors of equal size, or
\* a vector of size 1 against any vector
broadcast_raises(v, w) == Len(v) # Len(w) /\ Len(v) # 1 /\ Len(w) # 1

\* resid = self.A @ self.x - self.b raises
initial_residual_raises(A_, x_, b_) ==
    matmul_raises(A_, x_) \/ broadcast_raises(A_, b_)

\* resid = self.A @ self.x - self.b, with numpy's broadcasting
initial_residual(A_, x_, b_) ==
    LET Ax == MatVec(A_, x_)
        n == IF Len(Ax) = 1 THEN Len(b_) ELSE Len(Ax)
    IN  [i \in 1..n |-> RSub(Ax[IF Len(Ax) = 1 THEN 1 ELSE i],
                             b_[IF Len(b_) = 1 THEN 1 ELSE i])]

(***************************************************************************)
(* SymmetricMatrixBasedSolver.__init__                                     *)
(***************************************************************************)
Init ==
    \E sys \in Systems :
        /\ A = sys.A
        /\ b = sys.b
        /\ prior = sys
        /\ A_mean = aslinop(sys.A_mean)
        /\ A_covfactor = aslinop(sys.A_covfactor)
        /\ Ainv_mean = aslinop(sys.Ainv_mean)
        /\ Ainv_covfactor = aslinop(sys.Ainv_covfactor)
        /\ x = IF matmul_raises(sys.Ainv_mean, sys.b) THEN None
               ELSE initial_estimate(sys.Ainv_mean, sys.b)
        /\ S = <<>>
        /\ Y = <<>>
        /\ sy = <<>>
        /\ iter_ = 0
        /\ pc = IF matmul_raises(sys.Ainv_mean, sys.b) THEN "failed"
                ELSE "constructed"
        /\ maxiter = 0
        /\ atol = Tol(0, 0)
        /\ rtol = Tol(0, 0)
        /\ calibrate = FALSE
        /\ callback = FALSE
        /\ resid = None
        /\ has_converged = FALSE
        /\ conv_crit = ""
        /\ search_dir = None
        /\ obs = None
        /\ step_size = None
        /\ warned = 0
        /\ callbacks = <<>>
        /\ A_applications = 0
        /\ calibrations = 0
        /\ ncalls = 0
        /\ result = None

(***************************************************************************)
(* SymmetricMatrixBasedSolver.solve                                        *)
(***************************************************************************)
\* a call solve(callback, maxiter, atol, rtol, calibrate): initialization
SolveStart(maxiter_, atol_, rtol_, calibrate_, callback_) ==
    /\ pc \in {"constructed", "returned", "raised"}
    /\ ncalls < MaxSolves
    /\ ncalls' = ncalls + 1
    /\ maxiter' = maxiter_
    /\ atol' = atol_
    /\ rtol' = rtol_
    /\ calibrate' = calibrate_
    /\ callback' = callback_
    /\ iter_' = 0
    /\ resid' = IF initial_residual_raises(A, x, b) THEN None
                ELSE initial_residual(A, x, b)
    /\ A_applications' = 1
    /\ has_converged' = FALSE
    /\ conv_crit' = ""
    /\ search_dir' = None
    /\ obs' = None
    /\ step_size' = None
    /\ warned' = 0
    /\ callbacks' = <<>>
    /\ calibrations' = 0
    /\ result' = None
    /\ pc' = IF initial_residual_raises(A, x, b) THEN "raised" ELSE "check"
    /\ UNCHANGED <<A, b, prior, solver>>

\* check convergence, and leave the loop when a criterion fires
CheckConvergence ==
    /\ pc = "check"
    /\ LET c == check_convergence(iter_, maxiter, resid, atol, rtol, b)
       IN  /\ has_converged' = c.has_converged
           /\ conv_crit' = c.conv_crit
           /\ warned' = IF c.warn THEN warned + 1 ELSE warned
           /\ pc' = IF c.has_converged THEN "finish" ELSE "direction"
    /\ UNCHANGED <<A, b, prior, solver, iter_, options, resid, search_dir, obs,
                   step_size, callbacks, A_applications, calibrations, ncalls,
                   result>>

\* compute search direction
SearchDirection ==
    /\ pc = "direction"
    /\ IF Dim(Ainv_mean) # Len(resid)
       THEN pc' = "raised" /\ UNCHANGED <<search_dir, S>>
       ELSE /\ search_dir' = VNeg(Apply(Ainv_mean, resid))
            /\ S' = Append(S, search_dir')
            /\ pc' = "observe"
    /\ UNCHANGED <<A, b, prior, A_mean, A_covfactor, Ainv_mean, Ainv_covfactor,
                   x, Y, sy, iter_, options, resid, has_converged, conv_crit,
                   obs, step_size, warned, callbacks, A_applications,
                   calibrations, ncalls, result>>

\* the observation computed a second time for the archive
Observe_Reapply ==
    /\ pc = "observe"
    /\ IF matmul_raises(A, search_dir)
       THEN pc' = "raised" /\ UNCHANGED <<obs, Y>>
       ELSE /\ obs' = MatVec(A, search_dir)
            /\ Y' = Append(Y, MatVec(A, search_dir))
            /\ pc' = "step"
    /\ A_applications' = A_applications + 2
    /\ UNCHANGED <<A, b, prior, A_mean, A_covfactor, Ainv_mean, Ainv_covfactor,
                   x, S, sy, iter_, options, resid, has_converged, conv_crit,
                   search_dir, step_size, warned, callbacks, calibrations,
                   ncalls, result>>

\* perform action and observe
Observe ==
    /\ pc = "observe"
    /\ IF matmul_raises(A, search_dir)
       THEN pc' = "raised" /\ UNCHANGED <<obs, Y>>
       ELSE /\ obs' = MatVec(A, search_dir)
            /\ Y' = Append(Y, obs')
            /\ pc' = "step"
    /\ A_applications' = A_applications + 1
    /\ UNCHANGED <<A, b, prior, A_mean, A_covfactor, Ainv_mean, Ainv_covfactor,
                   x, S, sy, iter_, options, resid, has_converged, conv_crit,
                   search_dir, step_size, warned, callbacks, calibrations,
                   ncalls, result>>

\* the step size without its minus sign
compute_step_size_NoMinus(search_dir_, resid_, sy_) ==
    RDiv(Dot(search_dir_, resid_), sy_)

\* step_size = - (search_dir.T @ resid) / sy
compute_step_size(search_dir_, resid_, sy_) ==
    RDiv(RNeg(Dot(search_dir_, resid_)), sy_)

\* the residual updated along the search direction, not the observation
Step_ResidualAlongDirection ==
    /\ pc = "step"
    /\ IF Len(search_dir) # Len(obs)
       THEN pc' = "raised" /\ UNCHANGED <<step_size, sy, x, resid>>
       ELSE LET sy_ == Dot(search_dir, obs)
                alpha == compute_step_size(search_dir, resid, sy_)
            IN  /\ step_size' = alpha
                /\ sy' = Append(sy, sy_)
                /\ x' = VAdd(x, VScale(alpha, search_dir))
                /\ resid' = VAdd(resid, VScale(alpha, search_dir))
                /\ pc' = "update"
    /\ UNCHANGED <<A, b, prior, A_mean, A_covfactor, Ainv_mean, Ainv_covfactor,
                   S, Y, iter_, options, has_converged, conv_crit, search_dir,
                   obs, warned, callbacks, A_applications, calibrations, ncalls,
                   result>>

\* compute step size; step and residual update
Step ==
    /\ pc = "step"
    /\ IF Len(search_dir) # Len(obs)
       THEN pc' = "raised" /\ UNCHANGED <<step_size, sy, x, resid>>
       ELSE LET sy_ == Dot(search_dir, obs)
                alpha == compute_step_size(search_dir, resid, sy_)
            IN  /\ step_size' = alpha
                /\ sy' = Append(sy, sy_)
                /\ x' = VAdd(x, VScale(alpha, search_dir))
                /\ resid' = VAdd(resid, VScale(alpha, obs))
                /\ pc' = "update"
    /\ UNCHANGED <<A, b, prior, A_mean, A_covfactor, Ainv_mean, Ainv_covfactor,
                   S, Y, iter_, options, has_converged, conv_crit, search_dir,
                   obs, warned, callbacks, A_applications, calibrations, ncalls,
                   result>>

\* (symmetric) mean and covariance updates, iteration increment
BeliefUpdate ==
    /\ pc = "update"
    /\ \E Vs \in {Apply(A_covfactor, search_dir)},
          delta_A \in {VSub(obs, Apply(A_mean, search_dir))},
          Wy \in {Apply(Ainv_covfactor, obs)},
          delta_Ainv \in {VSub(search_dir, Apply(Ainv_mean, obs))} :
         \E sVs \in {Dot(search_dir, Vs)},
            sdelta_A \in {Dot(search_dir, delta_A)},
            yWy \in {Dot(obs, Wy)},
            ydelta_Ainv \in {Dot(obs, delta_Ainv)} :
            \E u_A \in {VDivS(Vs, sVs)},
               half_A \in {RMul(Half, sdelta_A)},
               u_Ainv \in {VDivS(Wy, yWy)},
               half_Ainv \in {RMul(Half, ydelta_Ainv)} :
               \E v_A \in {VSub(delta_A, VScale(half_A, u_A))},
                  v_Ainv \in {VSub(delta_Ainv, VScale(half_Ainv, u_Ainv))} :
                  /\ A_mean' = LinopAdd(A_mean, mean_update(u_A, v_A))
                  /\ Ainv_mean' =
                         LinopAdd(Ainv_mean, mean_update(u_Ainv, v_Ainv))
                  /\ A_covfactor' =
                         LinopSub(A_covfactor, covariance_update(u_A, Vs))
                  /\ Ainv_covfactor' =
                         LinopSub(Ainv_covfactor, covariance_update(u_Ainv, Wy))
    /\ iter_' = iter_ + 1
    /\ pc' = IF callback THEN "callback" ELSE "check"
    /\ UNCHANGED <<A, b, prior, x, S, Y, sy, options, locals, warned, callbacks,
                   A_applications, calibrations, ncalls, result>>

\* _calibrate_uncertainty yielding scale operators after any iteration
calibrate_uncertainty_NoThreshold(iter) ==
    IF iter > 0 THEN [Phi |-> "ScalarMult", Psi |-> "ScalarMult"]
    ELSE [Phi |-> "None", Psi |-> "None"]

\* _calibrate_uncertainty: scale operators only after more than 5 iterations;
\* the fitted scalars come from the external regression model
calibrate_uncertainty(iter) ==
    IF iter > CalibrationThreshold
    THEN [Phi |-> "ScalarMult", Psi |-> "ScalarMult"]
    ELSE [Phi |-> "None", Psi |-> "None"]

\* _create_output_randvars: the means and covariance factors of x, A, Ainv
create_output_randvars(Phi, Psi) ==
    [x |-> x,
     A |-> [mean |-> A_mean, covfactor |-> A_covfactor, scale |-> Phi],
     Ainv |-> [mean |-> Ainv_mean, covfactor |-> Ainv_covfactor, scale |-> Psi]]

\* the callback invoked again with the same arguments
Callback_Twice ==
    /\ pc = "callback"
    /\ LET out == create_output_randvars("None", "None")
           args == [xk |-> out.x, Ak |-> out.A, Ainvk |-> out.Ainv,
                    sk |-> search_dir, yk |-> obs, alphak |-> step_size,
                    resid |-> resid]
       IN  callbacks' = Append(Append(callbacks, args), args)
    /\ pc' = "check"
    /\ UNCHANGED <<A, b, prior, solver, iter_, options, locals, warned,
                   A_applications, calibrations, ncalls, result>>

\* callback function used to extract quantities from iteration
Callback ==
    /\ pc = "callback"
    /\ LET out == create_output_randvars("None", "None")
       IN  callbacks' = Append(callbacks,
               [xk |-> out.x, Ak |-> out.A, Ainvk |-> out.Ainv, sk |-> search_dir,
                yk |-> obs, alphak |-> step_size, resid |-> resid])
    /\ pc' = "check"
    /\ UNCHANGED <<A, b, prior, solver, iter_, options, locals, warned,
                   A_applications, calibrations, ncalls, result>>

\* the info record with the iteration count in place of maxiter
solve_info_IterAsMaxiter(iter, maxiter_, resid_, conv_crit_) ==
    [iter |-> iter,
     maxiter |-> iter,
     resid_l2norm_sq |-> NormSq(resid_),
     conv_crit |-> conv_crit_,
     matrix_cond |-> "None"]

\* log information on solution
solve_info(iter, maxiter_, resid_, conv_crit_) ==
    [iter |-> iter,
     maxiter |-> maxiter_,
     resid_l2norm_sq |-> NormSq(resid_),
     conv_crit |-> conv_crit_,
     matrix_cond |-> "None"]

\* the least-squares fit of _calibrate_uncertainty raises a ValueError: it
\* multiplies an array of iter_ entries by one of len(self.sy) entries
calibration_raises(iter, sy_) ==
    iter > CalibrationThreshold /\ Len(sy_) # iter

\* the regression is handed a logarithm of the Rayleigh quotients that is
\* not a finite number; what the regression library does with it is not
\* fixed by this code
calibration_undefined(iter, S_, sy_) ==
    /\ iter > CalibrationThreshold
    /\ \E i \in 1..Len(sy_) :
           \/ ~IsFinite(sy_[i]) \/ Sign(sy_[i]) <= 0
           \/ ~IsFinite(NormSq(S_[i])) \/ Sign(NormSq(S_[i])) <= 0

\* calibrate uncertainty, create output random variables, log information
Finish ==
    /\ pc = "finish"
    /\ \E library_raises \in
              IF calibrate /\ calibration_undefined(iter_, S, sy)
              THEN BOOLEAN ELSE {FALSE} :
           IF calibrate /\ (calibration_raises(iter_, sy) \/ library_raises)
           THEN pc' = "raised" /\ UNCHANGED result
           ELSE LET cal == IF calibrate THEN calibrate_uncertainty(iter_)
                           ELSE [Phi |-> "None", Psi |-> "None"]
                    out == create_output_randvars(cal.Phi, cal.Psi)
                IN  /\ result' =
                           [x |-> out.x, A |-> out.A, Ainv |-> out.Ainv,
                            info |-> solve_info(iter_, maxiter, resid, conv_crit)]
                    /\ pc' = "returned"
    /\ calibrations' = IF calibrate THEN calibrations + 1 ELSE calibrations
    /\ UNCHANGED <<A, b, prior, solver, iter_, options, locals, warned,
                   callbacks, A_applications, ncalls>>

Next ==
    \/ \E maxiter_ \in MaxiterValues, atol_ \in AtolValues, rtol_ \in RtolValues,
          calibrate_ \in BOOLEAN, callback_ \in BOOLEAN :
           SolveStart(maxiter_, atol_, rtol_, calibrate_, callback_)
    \/ CheckConvergence
    \/ SearchDirection
    \/ Observe
    \/ Step
    \/ BeliefUpdate
    \/ Callback
    \/ Finish

Spec == Init /\ [][Next]_vars

\* solve() is sequential code without blocking calls: while control is
\* inside solve(), it moves on to the next position.  The steps of solve()
\* are guarded by pc alone and each changes pc, so this is weak fairness of
\* the steps of solve(), stated on pc.
Advance ==
    /\ pc \in {"check", "direction", "observe", "step", "update", "callback",
               "finish"}
    /\ pc' \in {"check", "direction", "observe", "step", "update", "callback",
                "finish", "returned", "raised"}

FairSpec == Spec /\ WF_pc(Advance)

(***************************************************************************)
(* Vocabulary of the properties.                                           *)
(***************************************************************************)
\* a == b as numpy compares floats: nan equals nothing
REq(a, c) == a # NaN /\ c # NaN /\ a = c

VecEq(v, w) == Len(v) = Len(w) /\ \A i \in 1..Len(v) : REq(v[i], w[i])

\* a >= 0 as numpy compares floats
RGeq0(a) == a # NaN /\ Sign(a) >= 0

IsSymmetric(M) == \A i, j \in 1..Len(M) : M[i][j] = M[j][i]

Det2(M) == RSub(RMul(M[1][1], M[2][2]), RMul(M[1][2], M[2][1]))

Det3(M) ==
    RAdd(RSub(RMul(M[1][1], RSub(RMul(M[2][2], M[3][3]), RMul(M[2][3], M[3][2]))),
              RMul(M[1][2], RSub(RMul(M[2][1], M[3][3]), RMul(M[2][3], M[3][1])))),
         RMul(M[1][3], RSub(RMul(M[2][1], M[3][2]), RMul(M[2][2], M[3][1]))))

\* Sylvester's criterion, for matrices of size at most 3
IsSPD(M) ==
    /\ Len(M) <= 3
    /\ IsSymmetric(M)
    /\ Sign(M[1][1]) = 1
    /\ Len(M) >= 2 => Sign(Det2(M)) = 1
    /\ Len(M) >= 3 => Sign(Det3(M)) = 1

\* the system and all four priors are symmetric positive definite
SPDInputs ==
    /\ IsSPD(prior.A)
    /\ IsSPD(prior.A_mean) /\ IsSPD(prior.A_covfactor)
    /\ IsSPD(prior.Ainv_mean) /\ IsSPD(prior.Ainv_covfactor)

\* the beliefs are still the priors
BeliefsArePriors ==
    /\ A_mean = aslinop(prior.A_mean)
    /\ A_covfactor = aslinop(prior.A_covfactor)
    /\ Ainv_mean = aslinop(prior.Ainv_mean)
    /\ Ainv_covfactor = aslinop(prior.Ainv_covfactor)

\* a criterion of the convergence check holds in the current state
CriterionFires ==
    \/ iter_ >= maxiter
    \/ NormLeq(NormSq(resid), atol, R(1))
    \/ NormLeq(NormSq(resid), rtol, NormSq(b))

\* the positions of the loop body
BodyPositions == {"direction", "observe", "step", "update", "callback"}

\* the unit vectors and the sums and differences of two of them
Probes(n) ==
    {UnitVec(n, k) : k \in 1..n}
    \cup {VAdd(UnitVec(n, k), UnitVec(n, l)) : k, l \in 1..n}
    \cup {VSub(UnitVec(n, k), UnitVec(n, l)) : k, l \in 1..n}

\* no completed iteration of this solver had sy = 0
NoZeroSy == \A i \in 1..Len(sy) : Sign(sy[i]) # 0

C2_Termination ==
    /\ [](pc = "returned" => result.info.iter <= maxiter)
    /\ [][(pc = "check" /\ CriterionFires) => pc' = "finish"]_vars
    /\ [][pc = "finish" => pc' \in {"returned", "raised"}]_vars
    /\ (pc = "check") ~> (pc \in {"returned", "raised"})

\* a solve that returned after running to its iteration cap
C2_Witness ==
    /\ pc = "returned"
    /\ maxiter >= 2
    /\ result.info.iter = maxiter

(***************************************************************************)
(* C3.  Scenario A on a newly constructed solver: A = [[4,1],[1,3]],       *)
(* b = [1,2], identity priors, maxiter=2, atol=1e-10, rtol=0,              *)
(* calibrate=false.                                                        *)
(***************************************************************************)
InScenarioA ==
    /\ prior = ScenarioA
    /\ ncalls = 1
    /\ maxiter = 2
    /\ atol = Tol(1, 10)
    /\ rtol = Tol(0, 0)
    /\ calibrate = FALSE

\* C3 as stated: solve performs at most 2 iterations, returns
\* x = [1/11, 7/11] and reports the criterion resid_atol
C3_Original ==
    (InScenarioA /\ pc = "returned") =>
        /\ result.info.iter <= 2
        /\ result.x = <<<<1, 11>>, <<7, 11>>>>
        /\ result.info.conv_crit = "resid_atol"

\* C3 amended: solve performs exactly 2 iterations, returns x = [1/11, 7/11]
\* with zero residual, and reports the criterion maxiter (with a warning):
\* at the final check iter >= maxiter and ||resid|| <= atol both hold
C3_ScenarioA ==
    (InScenarioA /\ pc = "returned") =>
        /\ result.info.iter = 2
        /\ result.x = <<<<1, 11>>, <<7, 11>>>>
        /\ result.info.resid_l2norm_sq = Zero
        /\ result.info.conv_crit = "maxiter"
        /\ warned = 1

C3_Witness ==
    /\ InScenarioA
    /\ pc = "returned"
    /\ result.x = <<<<1, 11>>, <<7, 11>>>>

(***************************************************************************)
(* C4.  Scenario C on a newly constructed solver: A = Identity, identity   *)
(* priors, b arbitrary, any options.                                       *)
(***************************************************************************)
InScenarioC == prior \in ScenarioC /\ ncalls = 1

\* v is a multiple of w
IsMultiple(v, w) ==
    \A i, j \in 1..Len(v) : REq(RMul(v[i], w[j]), RMul(v[j], w[i]))

C5_MaxiterZero ==
    (ncalls >= 1 /\ maxiter = 0 /\ pc # "raised") =>
        /\ pc \in {"check", "finish", "returned"}
        /\ iter_ = 0
        /\ search_dir = None
        /\ callbacks = <<>>
        /\ ncalls = 1 => S = <<>> /\ Y = <<>> /\ sy = <<>> /\ BeliefsArePriors
        /\ pc = "returned" =>
               /\ result.info.iter = 0
               /\ result.info.conv_crit = "maxiter"
               /\ warned = 1
               /\ ncalls = 1 => VecEq(result.x, MatVec(prior.Ainv_mean, b))

\* scenario B itself has returned, with a prior mean that is not the identity
\* among the inputs
C5_Witness ==
    /\ pc = "returned"
    /\ ncalls = 1
    /\ maxiter = 0
    /\ prior.A = ScenarioA.A
    /\ result.x = b

(***************************************************************************)
(* C6.  Finite termination: for symmetric positive-definite A of size n    *)
(* and symmetric positive-definite priors, solve with calibrate=false,     *)
(* atol=rtol=0 and maxiter=n terminates within n iterations and the        *)
(* returned x satisfies A*x = b.                                           *)
(***************************************************************************)
C6_FiniteTermination ==
    (/\ pc = "returned"
     /\ ncalls = 1
     /\ SPDInputs
     /\ calibrate = FALSE
     /\ atol = Tol(0, 0)
     /\ rtol = Tol(0, 0)
     /\ maxiter = Len(b)) =>
        /\ result.info.iter <= Len(b)
        /\ VecEq(MatVec(A, result.x), b)

SymmetricPSD(W) ==
    LET n == Dim(W)
        col == [k \in 1..n |-> Apply(W, UnitVec(n, k))]
    IN  /\ \A k, l \in 1..n : REq(col[k][l], col[l][k])
        /\ \A z \in Probes(n) : RGeq0(Dot(z, Apply(W, z)))

C8_CovfactorsPSD ==
    pc \in {"constructed", "check"} =>
        SymmetricPSD(A_covfactor) /\ SymmetricPSD(Ainv_covfactor)

(***************************************************************************)
(* C9.  Whenever solve returns, info.convergence_criterion is one of       *)
(* 'maxiter', 'resid_atol', 'resid_rtol', it is the criterion of the final *)
(* convergence check, info.maxiter is the configured maxiter and           *)
(* info.matrix_condition is empty.                                         *)
(***************************************************************************)
C9_InfoRecord ==
    pc = "returned" =>
        /\ result.info.conv_crit \in {"maxiter", "resid_atol", "resid_rtol"}
        /\ has_converged
        /\ result.info.conv_crit = conv_crit
        /\ result.info.conv_crit =
               check_convergence(iter_, maxiter, resid, atol, rtol, b).conv_crit
        /\ result.info.maxiter = maxiter
        /\ result.info.matrix_cond = "None"

\* a solve returned by a residual criterion before reaching its cap
C9_Witness ==
    /\ pc = "returned"
    /\ result.info.iter >= 1
    /\ result.info.iter < maxiter
    /\ result.info.conv_crit = "resid_rtol"

(***************************************************************************)
(* C10.  The archive belongs to one solve() invocation: at every           *)
(* convergence check and when solve() returns, it holds one triple per     *)
(* iteration completed in that invocation, so                              *)
(* len(S) = len(Y) = len(sy) = iteration counter, in every invocation.     *)
(***************************************************************************)
C10_ArchivePerInvocation ==
    pc \in {"check", "finish", "returned"} =>
        Len(S) = iter_ /\ Len(Y) = iter_ /\ Len(sy) = iter_

(***************************************************************************)
(* C11.  The calibration correction is applied only to the final           *)
(* posterior: _calibrate_uncertainty is not called before the loop has     *)
(* exited, has been called exactly once when solve() returns if calibrate  *)
(* was requested, and is never called otherwise (an invocation that raised *)
(* called it at most once); the returned beliefs carry scale               *)
(* operators only if calibrate was requested and more than 5 iterations    *)
(* were performed; Phi and Psi are both present or both absent; and no     *)
(* distribution handed to the callback carries a scale operator.           *)
(***************************************************************************)
C11_CalibrationOnlyFinal ==
    /\ pc \in {"check", "finish"} \cup BodyPositions => calibrations = 0
    /\ pc = "raised" => calibrations <= (IF calibrate THEN 1 ELSE 0)
    /\ pc = "returned" =>
           /\ calibrations = (IF calibrate THEN 1 ELSE 0)
           /\ result.A.scale # "None" =>
                  calibrate /\ result.info.iter > CalibrationThreshold
           /\ (calibrate /\ result.info.iter <= CalibrationThreshold) =>
                  result.A.scale = "None" /\ result.Ainv.scale = "None"
           /\ result.A.scale = "None" <=> result.Ainv.scale = "None"
    /\ \A i \in 1..Len(callbacks) :
           callbacks[i].Ak.scale = "None" /\ callbacks[i].Ainvk.scale = "None"

\* a calibrated solve of the system of size 7 returned after six iterations
\* with both scale operators, its callback having been invoked
C11_Witness ==
    /\ pc = "returned"
    /\ prior = Tridiagonal7
    /\ calibrate
    /\ calibrations = 1
    /\ result.info.iter = CalibrationThreshold + 1
    /\ result.A.scale = "ScalarMult"
    /\ result.Ainv.scale = "ScalarMult"
    /\ Len(callbacks) = CalibrationThreshold + 1

(***************************************************************************)
(* C12.  When a callback is supplied it is invoked exactly once per        *)
(* completed iteration, after that iteration's update of x and the         *)
(* residual, the belief update and the counter increment, and before the   *)
(* next convergence check: at every check and at return the number of      *)
(* invocations is the iteration counter (info.iter at return), and the     *)
(* latest invocation received the current x, residual, beliefs, search     *)
(* direction, observation and step size.  Without a callback nothing is    *)
(* invoked.  The invocation changes nothing of the loop state, so the run  *)
(* and its result are those of a run with no callback.                     *)
(***************************************************************************)
C12_CallbackPerIteration ==
    /\ [](~callback => callbacks = <<>>)
    /\ []((callback /\ pc \in {"check", "finish", "returned"}) =>
              /\ Len(callbacks) = iter_
              /\ pc = "returned" => Len(callbacks) = result.info.iter
              /\ iter_ >= 1 =>
                     LET last == callbacks[iter_]
                     IN  /\ last.xk = x
                         /\ last.resid = resid
                         /\ last.Ak.mean = A_mean
                         /\ last.Ak.covfactor = A_covfactor
                         /\ last.Ainvk.mean = Ainv_mean
                         /\ last.Ainvk.covfactor = Ainv_covfactor
                         /\ last.sk = search_dir
                         /\ last.yk = obs
                         /\ last.alphak = step_size)
    /\ []((callback /\ pc \in BodyPositions) =>
              Len(callbacks) = (IF pc = "callback" THEN iter_ - 1 ELSE iter_))
    /\ [][pc = "update" =>
              pc' = (IF callback THEN "callback" ELSE "check")]_vars
    /\ [][pc = "callback" =>
              /\ pc' = "check"
              /\ Len(callbacks') = Len(callbacks) + 1
              /\ UNCHANGED <<A, b, solver, iter_, options, locals, warned,
                             A_applications, calibrations, ncalls, result>>]_vars

\* a solve with a callback returned after at least two iterations
C12_Witness ==
    /\ pc = "returned"
    /\ callback
    /\ result.info.iter >= 2
    /\ Len(callbacks) = result.info.iter
    /\ callbacks[1].xk # callbacks[2].xk

(***************************************************************************)
(* C13.  Incompatible dimensions of A and b are detected when the solver   *)
(* object is constructed: whenever A is not a square matrix of the size of *)
(* b, construction fails, solve() is never reached, and no archive entry   *)
(* is appended.                                                            *)
(***************************************************************************)
C13_MismatchAtConstruction ==
    (Len(prior.A) # Len(prior.b) \/ Len(prior.A[1]) # Len(prior.b)) =>
        /\ pc = "failed"
        /\ ncalls = 0
        /\ S = <<>> /\ Y = <<>> /\ sy = <<>>

(***************************************************************************)
(* C14.  The true operator A is applied to a vector once in the            *)
(* initialisation of solve() (resid = A*x - b) and once per iteration, in  *)
(* the observation step: at every convergence check and at return the      *)
(* number of applications in this invocation is the iteration counter      *)
(* plus one, and no other step applies A.                                  *)
(***************************************************************************)
C14_ApplicationsOfA ==
    /\ []((pc \in {"check", "finish", "returned"}) =>
              A_applications = iter_ + 1)
    /\ [][A_applications' # A_applications =>
              \/ pc \in {"constructed", "returned", "raised"}
                     /\ A_applications' = 1
              \/ pc = "observe" /\ A_applications' = A_applications + 1]_vars

\* C14 as stated: A is applied only in the observation step, so exactly k
\* times over an invocation with k completed iterations
C14_Original ==
    (pc \in {"check", "finish", "returned"}) => A_applications = iter_

\* a solve returned after two iterations or more
C14_Witness ==
    /\ pc = "returned"
    /\ result.info.iter >= 2
    /\ A_applications = result.info.iter + 1

(***************************************************************************)
(* C15.  A step whose inner product sy = s'y is zero aborts the solve: no  *)
(* iteration goes on to its belief update after computing sy = 0, and no   *)
(* solve() returns an x that is not finite.                                *)
(***************************************************************************)
C15_ZeroSyAborts ==
    /\ pc = "update" => sy[Len(sy)] # Zero
    /\ pc = "returned" => \A i \in 1..Len(result.x) : IsFinite(result.x[i])

(***************************************************************************)
(* C16.  The incrementally updated residual is the true residual of the    *)
(* current estimate: at every convergence check and at return, in every    *)
(* invocation on the solver object, resid = A*x - b provided that no sy    *)
(* was zero, and info.resid_l2norm is the norm of A*x - b for the returned *)
(* x.                                                                      *)
(***************************************************************************)
C16_ResidualIsTrue ==
    (pc \in {"check", "finish", "returned"} /\ NoZeroSy) =>
        /\ VecEq(resid, initial_residual(A, x, b))
        /\ pc = "returned" =>
               REq(result.info.resid_l2norm_sq,
                   NormSq(initial_residual(A, result.x, b)))

\* the second invocation on a solver object at a convergence check after an
\* iteration of its own, with a residual that is not zero
C16_Witness ==
    /\ pc = "check"
    /\ ncalls = 2
    /\ iter_ >= 1
    /\ Len(S) > iter_
    /\ NoZeroSy
    /\ NormSq(resid) # Zero

====
